---- MODULE Spec2Model ----
(***************************************************************************)
(* Model of the newsgroup discussion processor: the pipeline of            *)
(* NewsGroupCrew (crew.py) over the text utilities, the file manager, the  *)
(* validators and the process-wide log buffer of tools.py.                 *)
(*                                                                         *)
(* Python str values are TLA+ strings; the text functions work on the      *)
(* sequence of their characters (Chars) and give a string back (Text).     *)
(***************************************************************************)
EXTENDS Integers, Sequences, FiniteSets, TLC

(***************************************************************************)
(* Bounds of the model.                                                    *)
(***************************************************************************)
MaxOps == 2
MaxClock == 1

\* Operations one process makes in the specification of several runs.
MaxRunOps == 3

\* Longest response text given to extract_score on its own.
MaxScoreLen == 5

\* Longest text with delimiters given to clean_dialogue on its own.
MaxCleanLen == 4

\* Longest text with blank lines given to clean_dialogue on its own.
MaxParagraphLen == 5

\* Longest filename given to save_result on its own.
MaxNameLen == 3

(***************************************************************************)
(* Python values.                                                          *)
(***************************************************************************)
\* Python's None, kept apart from every str the model uses.
None == "<None>"
\* A call that raised instead of returning.
Raised == "<raised>"

\* str(x): the identity on a str, "None" on None.
Str(x) == IF x = None THEN "None" ELSE x

\* bool(x) of a str or None: false for None and for "".
Truthy(x) == x # None /\ x # ""

\* The characters of a str, as a sequence of one-character strings.
Chars(s) == [i \in 1..Len(s) |-> SubSeq(s, i, i)]

RECURSIVE TextFrom(_, _)
TextFrom(cs, i) == IF i > Len(cs) THEN "" ELSE cs[i] \o TextFrom(cs, i + 1)

\* The str made of a sequence of characters.
Text(cs) == TextFrom(cs, 1)

\* The characters str.strip() removes and the regular expression \s matches.
Whitespace == {" ", "\t", "\n", "\r", "\f"}

Digits == {"0", "1", "2", "3", "4", "5", "6", "7", "8", "9"}

\* The positions of cs that hold no whitespace.
NonSpace(cs) == {i \in 1..Len(cs) : cs[i] \notin Whitespace}

Min(S) == CHOOSE m \in S : \A k \in S : m <= k

Max(S) == CHOOSE m \in S : \A k \in S : k <= m

\* str.strip() on a character sequence.
Strip(cs) ==
    IF NonSpace(cs) = {} THEN << >>
    ELSE SubSeq(cs, Min(NonSpace(cs)), Max(NonSpace(cs)))

\* The positions of the separator in cs.
SepPositions(cs, sep) == {i \in 1..Len(cs) : cs[i] = sep}

\* The k-th position of S in increasing order.
Nth(S, k) == CHOOSE p \in S : Cardinality({q \in S : q < p}) = k - 1

\* str.split(sep) for a one-character separator: one piece more than there
\* are separators, "" giving one empty piece.
Split(cs, sep) ==
    LET seps == SepPositions(cs, sep)
        m == Cardinality(seps)
    IN  [k \in 1..(m + 1) |->
            SubSeq(cs,
                   IF k = 1 THEN 1 ELSE Nth(seps, k - 1) + 1,
                   IF k = m + 1 THEN Len(cs) ELSE Nth(seps, k) - 1)]

RECURSIVE JoinFrom(_, _, _)
JoinFrom(pieces, sep, i) ==
    IF i > Len(pieces) THEN << >>
    ELSE IF i = Len(pieces) THEN pieces[i]
    ELSE pieces[i] \o << sep >> \o JoinFrom(pieces, sep, i + 1)

\* sep.join(pieces)
Join(pieces, sep) == JoinFrom(pieces, sep, 1)

\* [p for p in pieces if p]
NonEmptyPieces(pieces) == SelectSeq(pieces, LAMBDA p : Len(p) > 0)

\* [p.strip() for p in pieces]
StripEach(pieces) == [k \in 1..Len(pieces) |-> Strip(pieces[k])]

Upper1(c) ==
    CASE c = "a" -> "A" [] c = "b" -> "B" [] c = "c" -> "C" [] c = "d" -> "D"
      [] c = "e" -> "E" [] c = "f" -> "F" [] c = "g" -> "G" [] c = "h" -> "H"
      [] c = "i" -> "I" [] c = "j" -> "J" [] c = "k" -> "K" [] c = "l" -> "L"
      [] c = "m" -> "M" [] c = "n" -> "N" [] c = "o" -> "O" [] c = "p" -> "P"
      [] c = "q" -> "Q" [] c = "r" -> "R" [] c = "s" -> "S" [] c = "t" -> "T"
      [] c = "u" -> "U" [] c = "v" -> "V" [] c = "w" -> "W" [] c = "x" -> "X"
      [] c = "y" -> "Y" [] c = "z" -> "Z" [] OTHER -> c

\* str.upper()
Upper(cs) == [i \in 1..Len(cs) |-> Upper1(cs[i])]

\* needle in haystack (substring test)
Contains(hay, needle) ==
    \E i \in 1..(Len(hay) - Len(needle) + 1) :
        SubSeq(hay, i, i + Len(needle) - 1) = needle

(***************************************************************************)
(* TextProcessor (tools.py).                                               *)
(***************************************************************************)
\* Index of the first close at or after i, 0 when there is none.
RECURSIVE FindChar(_, _, _)
FindChar(cs, c, i) ==
    IF i > Len(cs) THEN 0
    ELSE IF cs[i] = c THEN i ELSE FindChar(cs, c, i + 1)

\* re.sub(open [^close]* close, "", cs): leftmost matches, each running from
\* an open to the first close after it, removed in one left-to-right pass.
RECURSIVE RemoveDelimited(_, _, _, _)
RemoveDelimited(cs, open, close, i) ==
    IF i > Len(cs) THEN << >>
    ELSE IF cs[i] = open /\ FindChar(cs, close, i + 1) # 0
         THEN RemoveDelimited(cs, open, close, FindChar(cs, close, i + 1) + 1)
         ELSE << cs[i] >> \o RemoveDelimited(cs, open, close, i + 1)

\* End of the run of whitespace that starts at i (i - 1 when cs[i] is none).
RECURSIVE SpaceRunEnd(_, _)
SpaceRunEnd(cs, i) ==
    IF i > Len(cs) THEN i - 1
    ELSE IF cs[i] \in Whitespace THEN SpaceRunEnd(cs, i + 1) ELSE i - 1

\* re.sub(r"\s+", " ", cs)
RECURSIVE CollapseWhitespace(_, _)
CollapseWhitespace(cs, i) ==
    IF i > Len(cs) THEN << >>
    ELSE IF cs[i] \in Whitespace
         THEN << " " >> \o CollapseWhitespace(cs, SpaceRunEnd(cs, i) + 1)
         ELSE << cs[i] >> \o CollapseWhitespace(cs, i + 1)

\* The positions of "\n" in cs[i..j].
NewlinesIn(cs, i, j) == {k \in i..j : cs[k] = "\n"}

\* re.sub(r"\n\s*\n\s*\n+", "\n\n", cs): a match starts at a "\n" whose
\* whitespace run holds at least three "\n" and ends at the last of them.
RECURSIVE CollapseNewlines(_, _)
CollapseNewlines(cs, i) ==
    IF i > Len(cs) THEN << >>
    ELSE IF cs[i] = "\n" /\ Cardinality(NewlinesIn(cs, i, SpaceRunEnd(cs, i))) >= 3
         THEN << "\n", "\n" >>
              \o CollapseNewlines(cs, Max(NewlinesIn(cs, i, SpaceRunEnd(cs, i))) + 1)
         ELSE << cs[i] >> \o CollapseNewlines(cs, i + 1)

\* clean_dialogue with re.sub(.., count=1): of each kind of delimiter the
\* leftmost match alone is removed.
CleanChars_FirstMatchOnly(cs) ==
    LET Once(xs, open, close) ==
            LET opens == {k \in 1..Len(xs) :
                             xs[k] = open /\ FindChar(xs, close, k + 1) # 0}
            IN  IF opens = {} THEN xs
                ELSE SubSeq(xs, 1, Min(opens) - 1)
                     \o SubSeq(xs, FindChar(xs, close, Min(opens) + 1) + 1, Len(xs))
        noParens   == Once(cs, "(", ")")
        noBrackets == Once(noParens, "[", "]")
        noBraces   == Once(noBrackets, "{", "}")
        spaced     == CollapseWhitespace(noBraces, 1)
        paragraphs == CollapseNewlines(spaced, 1)
        lines      == StripEach(Split(paragraphs, "\n"))
    IN  Strip(Join(NonEmptyPieces(lines), "\n"))

\* TextProcessor.clean_dialogue, on characters.
CleanChars(cs) ==
    LET noParens   == RemoveDelimited(cs, "(", ")", 1)
        noBrackets == RemoveDelimited(noParens, "[", "]", 1)
        noBraces   == RemoveDelimited(noBrackets, "{", "}", 1)
        spaced     == CollapseWhitespace(noBraces, 1)
        paragraphs == CollapseNewlines(spaced, 1)
        lines      == StripEach(Split(paragraphs, "\n"))
    IN  Strip(Join(NonEmptyPieces(lines), "\n"))

\* TextProcessor.clean_dialogue
clean_dialogue(text) ==
    IF ~Truthy(text) THEN "" ELSE Text(CleanChars(Chars(text)))

\* The characters sanitize_filename replaces: [<>:"/\\|?*]
InvalidChars == {"<", ">", ":", "\"", "/", "\\", "|", "?", "*"}

\* re.sub(r'[<>:"/\\|?*]', '_', cs)
ReplaceInvalid(cs) ==
    [i \in 1..Len(cs) |-> IF cs[i] \in InvalidChars THEN "_" ELSE cs[i]]

\* cs.strip('. ')
StripDotsAndSpaces(cs) ==
    LET kept == {i \in 1..Len(cs) : cs[i] \notin {".", " "}}
    IN  IF kept = {} THEN << >> ELSE SubSeq(cs, Min(kept), Max(kept))

\* sanitize_filename without the strip('. ').
sanitize_filename_NoStrip(filename) ==
    LET sanitized == Text(ReplaceInvalid(Chars(filename)))
    IN  IF ~Truthy(sanitized) THEN "output" ELSE sanitized

\* TextProcessor.sanitize_filename
sanitize_filename(filename) ==
    LET sanitized == Text(StripDotsAndSpaces(ReplaceInvalid(Chars(filename))))
    IN  IF ~Truthy(sanitized) THEN "output" ELSE sanitized

DigitValue(c) ==
    CASE c = "0" -> 0 [] c = "1" -> 1 [] c = "2" -> 2 [] c = "3" -> 3
      [] c = "4" -> 4 [] c = "5" -> 5 [] c = "6" -> 6 [] c = "7" -> 7
      [] c = "8" -> 8 [] c = "9" -> 9

\* int(ds) of a run of digits
RECURSIVE IntOf(_, _)
IntOf(ds, n) == IF n = 0 THEN 0 ELSE 10 * IntOf(ds, n - 1) + DigitValue(ds[n])

\* End of the run of digits that starts at i (i - 1 when cs[i] is none).
RECURSIVE DigitRunEnd(_, _)
DigitRunEnd(cs, i) ==
    IF i > Len(cs) THEN i - 1
    ELSE IF cs[i] \in Digits THEN DigitRunEnd(cs, i + 1) ELSE i - 1

\* The digits of the run that starts at i.
DigitRun(cs, i) == SubSeq(cs, i, DigitRunEnd(cs, i))

\* re.match(r"^(\d+)$", cs)
IsStandalone(cs) == Len(cs) > 0 /\ DigitRunEnd(cs, 1) = Len(cs)

\* re.search(r"(\d+)(?:/10|/\d+)", cs) matches at i: a run of digits, a
\* slash and a digit.
FractionAt(cs, i) ==
    /\ cs[i] \in Digits
    /\ DigitRunEnd(cs, i) + 2 <= Len(cs)
    /\ cs[DigitRunEnd(cs, i) + 1] = "/"
    /\ cs[DigitRunEnd(cs, i) + 2] \in Digits

\* Start of the leftmost fraction at or after i, 0 when there is none.
RECURSIVE FirstFraction(_, _)
FirstFraction(cs, i) ==
    IF i > Len(cs) THEN 0
    ELSE IF FractionAt(cs, i) THEN i ELSE FirstFraction(cs, i + 1)

\* Start of the leftmost digit at or after i, 0 when there is none:
\* re.search(r"(\d+)", cs)
RECURSIVE FirstDigit(_, _)
FirstDigit(cs, i) ==
    IF i > Len(cs) THEN 0
    ELSE IF cs[i] \in Digits THEN i ELSE FirstDigit(cs, i + 1)

\* str(n) for the scores the clamp can give, 1..10
ScoreStr(n) ==
    CASE n = 1 -> "1" [] n = 2 -> "2" [] n = 3 -> "3" [] n = 4 -> "4"
      [] n = 5 -> "5" [] n = 6 -> "6" [] n = 7 -> "7" [] n = 8 -> "8"
      [] n = 9 -> "9" [] n = 10 -> "10"

\* str(max(score, 1)): the clamp without its upper bound.
Clamp_NoUpperBound(n) ==
    LET D == << "0", "1", "2", "3", "4", "5", "6", "7", "8", "9" >>
        RECURSIVE Dec(_)
        Dec(k) == IF k < 10 THEN D[k + 1] ELSE Dec(k \div 10) \o D[(k % 10) + 1]
    IN  Dec(IF n < 1 THEN 1 ELSE n)

\* str(min(max(score, 1), 10))
Clamp(n) == ScoreStr(IF n < 1 THEN 1 ELSE IF n > 10 THEN 10 ELSE n)

\* extract_score without the search for a fraction: a bare integer, else the
\* first run of digits.
ScoreOfLine_NoFraction(first_line) ==
    IF IsStandalone(first_line)
    THEN Clamp(IntOf(first_line, Len(first_line)))
    ELSE IF FirstDigit(first_line, 1) # 0
    THEN LET ds == DigitRun(first_line, FirstDigit(first_line, 1))
         IN  Clamp(IntOf(ds, Len(ds)))
    ELSE "0"

\* TextProcessor.extract_score, on the characters of the first line.
ScoreOfLine(first_line) ==
    IF IsStandalone(first_line)
    THEN Clamp(IntOf(first_line, Len(first_line)))
    ELSE IF FirstFraction(first_line, 1) # 0
    THEN LET ds == DigitRun(first_line, FirstFraction(first_line, 1))
         IN  Clamp(IntOf(ds, Len(ds)))
    ELSE IF FirstDigit(first_line, 1) # 0
    THEN LET ds == DigitRun(first_line, FirstDigit(first_line, 1))
         IN  Clamp(IntOf(ds, Len(ds)))
    ELSE "0"

\* TextProcessor.extract_score
extract_score(score_text) ==
    IF ~Truthy(score_text) THEN "0"
    ELSE ScoreOfLine(Strip(Split(Strip(Chars(score_text)), "\n")[1]))

MinContentLength == 100
MinContentLines == 3

\* validate_discussion_content with the length test off by one (<= 100).
validate_discussion_content_OffByOne(content) ==
    IF ~Truthy(content) \/ Len(Strip(Chars(content))) = 0 THEN FALSE
    ELSE IF Len(Strip(Chars(content))) <= MinContentLength THEN FALSE
    ELSE LET lines == Split(Strip(Chars(content)), "\n")
             non_empty_lines == NonEmptyPieces(StripEach(lines))
         IN  ~(Len(non_empty_lines) < MinContentLines)

\* TextProcessor.validate_discussion_content
validate_discussion_content(content) ==
    IF ~Truthy(content) \/ Len(Strip(Chars(content))) = 0 THEN FALSE
    ELSE IF Len(Strip(Chars(content))) < MinContentLength THEN FALSE
    ELSE LET lines == Split(Strip(Chars(content)), "\n")
             non_empty_lines == NonEmptyPieces(StripEach(lines))
         IN  ~(Len(non_empty_lines) < MinContentLines)

(***************************************************************************)
(* ValidationTools (tools.py).                                             *)
(***************************************************************************)
MinResponseLength == 10

\* validate_agent_response without the test of the length: any response
\* that is not empty passes.
validate_agent_response_AnyLength(response) ==
    Truthy(response) /\ Len(Strip(Chars(response))) > 0

\* ValidationTools.validate_agent_response
validate_agent_response(response) ==
    IF ~Truthy(response) \/ Len(Strip(Chars(response))) = 0 THEN FALSE
    ELSE ~(Len(Strip(Chars(response))) < MinResponseLength)

\* ValidationTools.validate_crew_result
validate_crew_result(result) ==
    IF result = None THEN FALSE
    ELSE Len(Strip(Chars(Str(result)))) # 0

(***************************************************************************)
(* The inputs the model draws from.                                        *)
(***************************************************************************)
RECURSIVE Pad(_)
\* n characters of text
Pad(n) ==
    IF n = 0 THEN ""
    ELSE IF n % 2 = 0 THEN LET half == Pad(n \div 2) IN half \o half
    ELSE "x" \o Pad(n - 1)

\* 100 characters once trimmed, on three lines with a blank one between.
DiscussionMin == "  A: " \o Pad(30) \o "\n\nB: " \o Pad(30) \o "\nC: " \o Pad(28) \o "\n"
\* 99 characters once trimmed and 103 before, on three lines.
DiscussionShort == "\n\nA: " \o Pad(30) \o "\nB: " \o Pad(30) \o "\nC: " \o Pad(28) \o "\n\n"
\* 120 characters on two lines, with blank lines around them.
DiscussionTwoLines == "A: " \o Pad(57) \o "\n \n\t\nB: " \o Pad(52)
Discussions ==
    { None, "", " \n\t ", "dummy content", DiscussionMin, DiscussionShort,
      DiscussionTwoLines }

\* What Task.execute() of the spam filter may return.
SpamResponses ==
    { None, "STOP", "all clear", "looks fine", "Stop: an ad", "  do not stop it  " }

\* What Crew.kickoff() may return.
CrewResults == { None, "  ", "(sighs) [x]", "A: hi (smiles)\n\n\n\nB:  yo " }

\* What Task.execute() of the scorer may return.
ScoreResponses == { None, "8", "8/10 good.", "Score: 12/10", "no numbers here" }

\* The input files process_from_file may be pointed at.
InputFiles ==
    { [exists |-> FALSE, utf8 |-> TRUE, text |-> ""],
      [exists |-> TRUE, utf8 |-> TRUE, text |-> " \n\t "],
      [exists |-> TRUE, utf8 |-> TRUE, text |-> DiscussionShort],
      [exists |-> TRUE, utf8 |-> FALSE, text |-> DiscussionMin] }

(***************************************************************************)
(* State.                                                                  *)
(***************************************************************************)
VARIABLES
    api_key,      \* GOOGLE_API_KEY is set in the environment
    clock,        \* the wall clock, in seconds
    crew,         \* the NewsGroupCrew object: agents, tasks, discussion_content
    log_buffer,   \* LoggingTools._log_buffer
    output_dir,   \* the files of output/
    logs_dir,     \* the files of logs/, by the timestamp in their name
    pc,           \* where the operation in progress stands
    ops,          \* operations begun so far
    op,           \* the operation in progress, or the last one
    run,          \* the arguments and locals of the run, and what it has done
    result,       \* the dict the last operation returned
    raised,       \* the message of the exception the last operation let out
    call,         \* a call of a static method of tools.py: its argument and value
    cli           \* main() of main.py: its arguments, its position, its exit code

vars == << api_key, clock, crew, log_buffer, output_dir, logs_dir, pc, ops,
           op, run, result, raised, call, cli >>

NoCrew == [agents |-> FALSE, tasks |-> FALSE, discussion_content |-> None]

\* No file of that name in output/.
Absent == "<absent>"

\* No log file of that timestamp in logs/ (a log file is never empty).
NoLog == << >>

NoStats == [original_length |-> 0, processed_length |-> 0, files_saved |-> FALSE]

\* No dict: the operation has not returned.
NoResult ==
    [error |-> None, status |-> None, message |-> None, dialogue |-> None,
     score |-> None, stats |-> NoStats]

\* {"error": error_msg}
ErrorResult(error_msg) == [NoResult EXCEPT !.error = error_msg]

\* {"status": "filtered", "message": ...}
FilteredResult ==
    [NoResult EXCEPT !.status = "filtered",
                     !.message = "Content was filtered out by spam filter"]

\* {"status": "success", "dialogue": ..., "score": ..., "message": ..., "stats": ...}
SuccessResult(content, dialogue_result, score, save_output) ==
    [NoResult EXCEPT
        !.status = "success",
        !.dialogue = dialogue_result,
        !.score = score,
        !.message = "Successfully processed discussion with score: " \o score \o "/10",
        !.stats = [original_length |-> Len(content),
                   processed_length |-> Len(dialogue_result),
                   files_saved |-> save_output]]

NewRun ==
    [entered |-> FALSE, save_output |-> FALSE, save_logs |-> FALSE,
     env_ok |-> FALSE, spam_result |-> None, crew_result |-> None,
     dialogue_result |-> None, score_result |-> None, score |-> None,
     calls |-> << >>, writes |-> << >>]

\* No static method of tools.py is being called on its own.
NoCall == [fn |-> "none", arg |-> None, ret |-> None]

\* main() has not been entered.
NoCli == [pc |-> "none", file |-> None, no_save |-> FALSE, no_logs |-> FALSE,
          demo |-> FALSE, source |-> "unknown", ended |-> "no", exit |-> -1]

\* The process before anything is called: nothing constructed, nothing logged,
\* no file written.
InitProcess ==
    /\ api_key \in BOOLEAN
    /\ clock = 0
    /\ crew = NoCrew
    /\ log_buffer = << >>
    /\ output_dir = [f \in {"dialogue_output.txt", "dialogue_score.txt"} |-> Absent]
    /\ logs_dir = [t \in 0..MaxClock |-> NoLog]
    /\ pc = "idle"
    /\ ops = 0
    /\ op = "none"
    /\ run = NewRun
    /\ result = NoResult
    /\ raised = ""

Init ==
    /\ InitProcess
    /\ call = NoCall
    /\ cli = NoCli

(***************************************************************************)
(* LoggingTools and FileManager (tools.py).                                *)
(***************************************************************************)
\* LoggingTools.log_step: the entry, by its step name
log_step(step_name) == "STEP: " \o step_name
\* LoggingTools.log_result: the entry, by its title
log_result(title) == "--- " \o title \o " ---"
\* LoggingTools.log_error: the entry, by its context
log_error(context) == "ERROR in " \o context

\* LoggingTools.clear_log with the buffer left as it was.
clear_log_Kept(buf) == buf

\* LoggingTools.clear_log: the buffer afterwards
clear_log(buf) == << >>

\* _log_buffer.append, for the entries of operation n in order
AppendLog(buf, n, entries) ==
    buf \o [i \in 1..Len(entries) |-> [op |-> n, text |-> entries[i]]]

\* FileManager.save_log: the name of the log file holds the second it is
\* written in, and open(.., "w") replaces a file of that name.
save_log(dir, log_content, ok) ==
    IF ok THEN [dir EXCEPT ![clock] = log_content] ELSE dir

\* LoggingTools.save_log_to_file: nothing is written for an empty buffer.
save_log_to_file(dir, buf, ok) ==
    IF Len(buf) > 0 THEN save_log(dir, buf, ok) ELSE dir

\* The write save_log_to_file makes, as the run records it.
LogWrite(buf, ok) ==
    IF Len(buf) > 0 THEN << [file |-> "log", ok |-> ok] >> ELSE << >>

\* open(dir / name, "w") and write: the file of that name holds content.
WriteFile(dir, name, content) ==
    [n \in DOMAIN dir \cup {name} |-> IF n = name THEN content ELSE dir[n]]

\* FileManager.save_result: empty content is not written; the path is built
\* from the sanitized filename; a failure of open() leaves the directory as
\* it was.
save_result(dir, content, filename, ok) ==
    IF ~Truthy(content) THEN dir
    ELSE IF ok THEN WriteFile(dir, sanitize_filename(filename), content) ELSE dir

\* What save_result returns.
save_result_ok(content, ok) == Truthy(content) /\ ok

\* FileManager.load_discussion_from_file
load_discussion_from_file(file) ==
    IF ~file.exists THEN ""
    ELSE IF file.utf8
         THEN IF Len(Strip(Chars(file.text))) = 0 THEN "" ELSE file.text
         ELSE file.text

\* ValidationTools.validate_environment
validate_environment == api_key

(***************************************************************************)
(* The environment of the process.                                         *)
(***************************************************************************)
\* The credential is set or unset between two operations.
SetEnv ==
    /\ pc = "idle"
    /\ api_key' = ~api_key
    /\ UNCHANGED << clock, crew, log_buffer, output_dir, logs_dir, pc, ops, op,
                    run, result, raised >>

\* A second passes between two operations.
Tick ==
    /\ pc = "idle"
    /\ clock < MaxClock
    /\ clock' = clock + 1
    /\ UNCHANGED << api_key, crew, log_buffer, output_dir, logs_dir, pc, ops,
                    op, run, result, raised >>

(***************************************************************************)
(* NewsGroupCrew (crew.py).                                                *)
(***************************************************************************)
\* get_gemini_llm (agents.py): raises ValueError without the credential.
get_gemini_llm_raises == ~api_key

\* NewsGroupCrew.__init__: logs and re-raises what the agents raise.
Construct(content) ==
    /\ pc = "idle"
    /\ ops' = ops + 1
    /\ op' = "__init__"
    /\ IF get_gemini_llm_raises
       THEN /\ log_buffer' = AppendLog(log_buffer, ops + 1, << log_error("Initialization") >>)
            /\ raised' = "GOOGLE_API_KEY environment variable is not set"
            /\ crew' = crew
       ELSE /\ log_buffer' = AppendLog(log_buffer, ops + 1, << log_step("INITIALIZATION") >>)
            /\ raised' = ""
            /\ crew' = [agents |-> TRUE, tasks |-> TRUE, discussion_content |-> content]
    /\ result' = NoResult
    /\ run' = NewRun
    /\ UNCHANGED << api_key, clock, output_dir, logs_dir, pc >>

\* An operation returns res, leaving the buffer at buf and the run at r.
Return(res, buf, r) ==
    /\ pc' = "idle"
    /\ result' = res
    /\ log_buffer' = buf
    /\ run' = r
    /\ raised' = ""

\* An operation goes on at label, leaving the buffer at buf and the run at r.
Goto(label, buf, r) ==
    /\ pc' = label
    /\ result' = NoResult
    /\ log_buffer' = buf
    /\ run' = r
    /\ raised' = ""

\* NewsGroupCrew.process_discussion up to the call of the spam filter task:
\* the buffer buf is cleared, then the environment and the content are checked.
BeginPipeline(buf, content, save_output, save_logs) ==
    LET n  == ops + 1
        r0 == [NewRun EXCEPT !.entered = TRUE, !.save_output = save_output,
                            !.save_logs = save_logs]
        b0 == AppendLog(clear_log(buf), n, << log_step("PIPELINE START"),
                                     log_step("ENVIRONMENT CHECK") >>)
        b1 == AppendLog(b0, n, << log_step("CONTENT VALIDATION") >>)
    IN  IF ~validate_environment
        THEN Return(ErrorResult("Environment validation failed - check API keys"),
                    AppendLog(b0, n, << log_error("Environment") >>), r0)
        ELSE IF ~validate_discussion_content(content)
        THEN Return(ErrorResult("Invalid or insufficient discussion content (minimum 100 characters, meaningful content required)"),
                    AppendLog(b1, n, << log_error("Content Validation") >>),
                    [r0 EXCEPT !.env_ok = TRUE])
        ELSE Goto("spam_execute",
                  AppendLog(b1, n, << log_result("Input Discussion Content"),
                                      log_step("STEP 1"),
                                      log_step("SPAM FILTER"),
                                      log_step("SPAM FILTER EXECUTION") >>),
                  [r0 EXCEPT !.env_ok = TRUE])

\* NewsGroupCrew.process_discussion
ProcessDiscussion(save_output, save_logs) ==
    /\ pc = "idle"
    /\ crew.agents
    /\ ops' = ops + 1
    /\ op' = "process_discussion"
    /\ BeginPipeline(log_buffer, crew.discussion_content, save_output, save_logs)
    /\ UNCHANGED << api_key, clock, crew, output_dir, logs_dir >>

\* NewsGroupCrew.process_from_file
ProcessFromFile(file, save_output, save_logs) ==
    /\ pc = "idle"
    /\ crew.agents
    /\ ops' = ops + 1
    /\ op' = "process_from_file"
    /\ LET discussion_content == load_discussion_from_file(file)
       IN  IF ~Truthy(discussion_content)
           THEN /\ Return(ErrorResult("Could not load discussion from file"),
                          AppendLog(log_buffer, ops + 1,
                                    << log_step("FILE PROCESSING"),
                                       log_error("File Processing") >>),
                          [NewRun EXCEPT !.save_output = save_output,
                                         !.save_logs = save_logs])
                /\ crew' = crew
           ELSE /\ BeginPipeline(AppendLog(log_buffer, ops + 1,
                                            << log_step("FILE PROCESSING") >>),
                                  discussion_content, save_output, save_logs)
                /\ crew' = [crew EXCEPT !.discussion_content = discussion_content,
                                        !.tasks = TRUE]
    /\ UNCHANGED << api_key, clock, output_dir, logs_dir >>

\* run_spam_filter without the upper(): the marker is matched as written.
run_spam_filter_CaseSensitive(spam_result) ==
    IF spam_result = Raised THEN FALSE
    ELSE IF ~validate_agent_response(Str(spam_result)) THEN FALSE
    ELSE ~Contains(Chars(Str(spam_result)), Chars("STOP"))

\* run_spam_filter without the search for the marker: every valid response
\* lets the content through.
run_spam_filter_MarkerIgnored(spam_result) ==
    IF spam_result = Raised THEN FALSE
    ELSE validate_agent_response(Str(spam_result))

\* NewsGroupCrew.run_spam_filter, given what spam_task.execute() did:
\* TRUE when the content should be processed.
run_spam_filter(spam_result) ==
    IF spam_result = Raised THEN FALSE
    ELSE IF ~validate_agent_response(Str(spam_result)) THEN FALSE
    ELSE ~Contains(Upper(Chars(Str(spam_result))), Chars("STOP"))

\* The entries run_spam_filter logs after the call.
SpamFilterLog(spam_result) ==
    IF spam_result = Raised THEN << log_error("Spam Filter") >>
    ELSE IF ~validate_agent_response(Str(spam_result)) THEN << log_error("Spam Filter") >>
    ELSE << log_result("Spam Filter Result"), log_step("SPAM FILTER RESULT") >>

\* spam_task.execute() returns or raises; process_discussion returns the
\* "filtered" dict when run_spam_filter gives False.
SpamExecute(spam_result, ok) ==
    /\ pc = "spam_execute"
    /\ LET r  == [run EXCEPT !.calls = @ \o << "spam_filter" >>,
                             !.spam_result = spam_result]
           b  == AppendLog(log_buffer, ops, SpamFilterLog(spam_result))
           bf == AppendLog(b, ops, << log_result("Final Result") >>)
       IN  IF ~run_spam_filter(spam_result)
           THEN /\ Return(FilteredResult, bf,
                          IF run.save_logs
                          THEN [r EXCEPT !.writes = @ \o LogWrite(bf, ok)]
                          ELSE r)
                /\ logs_dir' = IF run.save_logs
                               THEN save_log_to_file(logs_dir, bf, ok)
                               ELSE logs_dir
           ELSE /\ Goto("step2", b, r)
                /\ logs_dir' = logs_dir
    /\ UNCHANGED << api_key, clock, crew, output_dir, ops, op >>

\* process_discussion, step 2, up to crew.kickoff(): the three agents and
\* tasks are made and the sequential crew is started.
StartTransformation ==
    /\ pc = "step2"
    /\ Goto("analysis",
            AppendLog(log_buffer, ops,
                      << log_step("STEP 2"), log_step("DIALOGUE TRANSFORMATION"),
                         log_step("AGENT CREATION"), log_step("TASK CREATION"),
                         log_step("CREW EXECUTION") >>),
            run)
    /\ UNCHANGED << api_key, clock, crew, output_dir, logs_dir, ops, op >>

\* The same without the test of save_logs: the log is saved in any case.
TransformationFailed_AlwaysSavesLog(buf, r, ok) ==
    LET b == AppendLog(buf, ops, << log_error("Processing Pipeline") >>)
    IN  /\ Return(ErrorResult("Dialogue transformation failed - no output generated"),
                  b, [r EXCEPT !.writes = @ \o LogWrite(b, ok)])
        /\ logs_dir' = save_log_to_file(logs_dir, b, ok)

\* process_discussion when run_dialogue_transformation gave None or "": the
\* error is logged, the log saved and the error dict returned.
TransformationFailed(buf, r, ok) ==
    LET b == AppendLog(buf, ops, << log_error("Processing Pipeline") >>)
    IN  /\ Return(ErrorResult("Dialogue transformation failed - no output generated"),
                  b,
                  IF run.save_logs THEN [r EXCEPT !.writes = @ \o LogWrite(b, ok)] ELSE r)
        /\ logs_dir' = IF run.save_logs THEN save_log_to_file(logs_dir, b, ok)
                       ELSE logs_dir

\* A task of the crew before the last one (Process.sequential): it gives its
\* output to the next task, or raises out of crew.kickoff().
CrewTask(stage, next, raises, ok) ==
    /\ pc = stage
    /\ LET r == [run EXCEPT !.calls = @ \o << stage >>]
       IN  IF raises
           THEN TransformationFailed(
                    AppendLog(log_buffer, ops, << log_error("Dialogue Transformation") >>),
                    [r EXCEPT !.crew_result = Raised], ok)
           ELSE /\ Goto(next, log_buffer, r)
                /\ logs_dir' = logs_dir
    /\ UNCHANGED << api_key, clock, crew, output_dir, ops, op >>

AnalysisTask(raises, ok) == CrewTask("analysis", "scriptwriting", raises, ok)

ScriptwritingTask(raises, ok) == CrewTask("scriptwriting", "formatting", raises, ok)

\* run_dialogue_transformation returning the crew's text as it came.
run_dialogue_transformation_Uncleaned(crew_result) ==
    IF crew_result = Raised THEN None
    ELSE IF ~validate_crew_result(crew_result) THEN None
    ELSE Str(crew_result)

\* NewsGroupCrew.run_dialogue_transformation, given what crew.kickoff() did:
\* the cleaned dialogue, or None.
run_dialogue_transformation(crew_result) ==
    IF crew_result = Raised THEN None
    ELSE IF ~validate_crew_result(crew_result) THEN None
    ELSE IF Len(Strip(Chars(clean_dialogue(Str(crew_result))))) = 0 THEN None
    ELSE clean_dialogue(Str(crew_result))

\* The entries run_dialogue_transformation logs after crew.kickoff().
TransformationLog(crew_result) ==
    IF crew_result = Raised THEN << log_error("Dialogue Transformation") >>
    ELSE IF ~validate_crew_result(crew_result)
    THEN << log_error("Dialogue Transformation") >>
    ELSE IF Len(Strip(Chars(clean_dialogue(Str(crew_result))))) = 0
    THEN << log_step("RESULT CLEANING"), log_error("Dialogue Transformation") >>
    ELSE << log_step("RESULT CLEANING"), log_result("Dialogue Transformation Result") >>

\* The last task of the crew: crew.kickoff() returns its output or raises,
\* the result is validated and cleaned, and process_discussion goes on to
\* step 3 when there is a dialogue.
FormattingTask(crew_result, ok) ==
    /\ pc = "formatting"
    /\ LET dialogue_result == run_dialogue_transformation(crew_result)
           r == [run EXCEPT !.calls = @ \o << "formatting" >>,
                            !.crew_result = crew_result,
                            !.dialogue_result = dialogue_result]
           b == AppendLog(log_buffer, ops, TransformationLog(crew_result))
       IN  IF ~Truthy(dialogue_result)
           THEN TransformationFailed(b, r, ok)
           ELSE /\ Goto("step3", b, r)
                /\ logs_dir' = logs_dir
    /\ UNCHANGED << api_key, clock, crew, output_dir, ops, op >>

\* process_discussion, step 3, and score_dialogue up to the call of the
\* scoring task; an empty dialogue is scored "0" without the call.
StartScoring ==
    /\ pc = "step3"
    /\ LET b == AppendLog(log_buffer, ops, << log_step("STEP 3"), log_step("SCORING") >>)
       IN  IF ~Truthy(run.dialogue_result)
              \/ Len(Strip(Chars(run.dialogue_result))) = 0
           THEN Goto("persist", AppendLog(b, ops, << log_error("Scoring") >>),
                     [run EXCEPT !.score = "0"])
           ELSE Goto("score_execute",
                     AppendLog(b, ops, << log_step("SCORE EXECUTION") >>), run)
    /\ UNCHANGED << api_key, clock, crew, output_dir, logs_dir, ops, op >>

\* score_dialogue without the validation of the response.
score_dialogue_Unvalidated(score_result) ==
    IF score_result = Raised THEN "0"
    ELSE extract_score(Str(score_result))

\* NewsGroupCrew.score_dialogue, given what scoring_task.execute() did.
score_dialogue(score_result) ==
    IF score_result = Raised THEN "0"
    ELSE IF ~validate_agent_response(Str(score_result)) THEN "0"
    ELSE extract_score(Str(score_result))

\* The entry score_dialogue logs after the call.
ScoringLog(score_result) ==
    IF score_result = Raised THEN << log_error("Scoring") >>
    ELSE IF ~validate_agent_response(Str(score_result)) THEN << log_error("Scoring") >>
    ELSE << log_result("Scoring Result") >>

\* scoring_task.execute() returns or raises.
ScoreExecute(score_result) ==
    /\ pc = "score_execute"
    /\ Goto("persist",
            AppendLog(log_buffer, ops, ScoringLog(score_result)),
            [run EXCEPT !.calls = @ \o << "scoring" >>,
                        !.score_result = score_result,
                        !.score = score_dialogue(score_result)])
    /\ UNCHANGED << api_key, clock, crew, output_dir, logs_dir, ops, op >>

\* The score report process_discussion composes.
ScoreContent(score, buf, dialogue_result) ==
    "Dialogue Quality Score: " \o score \o "/10\n\nGenerated on: "
    \o (IF Len(buf) > 0 THEN buf[1].text ELSE "Unknown")
    \o "\n\nDIALOGUE CONTENT:\n=====\n" \o dialogue_result

\* process_discussion from the saving of the output to its return: the two
\* output files, then the log file, then the result and its last entries.
Persist(okDialogue, okScore, okLog) ==
    /\ pc = "persist"
    /\ LET b1 == IF run.save_output
                 THEN AppendLog(log_buffer, ops, << log_step("FILE OPERATIONS") >>)
                 ELSE log_buffer
           score_content == ScoreContent(run.score, b1, run.dialogue_result)
           dialogue_saved == save_result_ok(run.dialogue_result, okDialogue)
           score_saved == save_result_ok(score_content, okScore)
           b2 == IF run.save_output /\ ~(dialogue_saved /\ score_saved)
                 THEN AppendLog(b1, ops, << log_error("File Operations") >>)
                 ELSE b1
           w1 == IF run.save_output
                 THEN << [file |-> "dialogue_output.txt", ok |-> dialogue_saved],
                         [file |-> "dialogue_score.txt", ok |-> score_saved] >>
                 ELSE << >>
           w2 == IF run.save_logs THEN LogWrite(b2, okLog) ELSE << >>
           b3 == AppendLog(b2, ops, << log_step("PIPELINE COMPLETE"),
                                      log_result("Final Result") >>)
       IN  /\ output_dir' =
                 IF run.save_output
                 THEN save_result(
                          save_result(output_dir, run.dialogue_result,
                                      "dialogue_output.txt", okDialogue),
                          score_content, "dialogue_score.txt", okScore)
                 ELSE output_dir
           /\ logs_dir' = IF run.save_logs THEN save_log_to_file(logs_dir, b2, okLog)
                          ELSE logs_dir
           /\ Return(SuccessResult(crew.discussion_content, run.dialogue_result,
                                   run.score, run.save_output),
                     b3, [run EXCEPT !.writes = @ \o w1 \o w2])
    /\ UNCHANGED << api_key, clock, crew, ops, op >>

\* The handler of process_discussion, for an exception raised in the try
\* block outside the handlers of the stage methods (here by the statement
\* that opens step 2 or step 3): it is logged, the log saved, the error dict
\* returned.
PipelineException(okLog) ==
    /\ pc \in {"step2", "step3"}
    /\ LET b == AppendLog(log_buffer, ops, << log_error("Processing Pipeline") >>)
       IN  /\ Return(ErrorResult("Error during processing pipeline"), b,
                     IF run.save_logs
                     THEN [run EXCEPT !.writes = @ \o LogWrite(b, okLog)]
                     ELSE run)
           /\ logs_dir' = IF run.save_logs THEN save_log_to_file(logs_dir, b, okLog)
                          ELSE logs_dir
    /\ UNCHANGED << api_key, clock, crew, output_dir, ops, op >>

Next ==
    \/ SetEnv /\ UNCHANGED << call, cli >>
    \/ Tick /\ UNCHANGED << call, cli >>
    \/ /\ ops < MaxOps /\ \E content \in Discussions : Construct(content)
       /\ UNCHANGED << call, cli >>
    \/ /\ ops < MaxOps /\ \E save_output \in BOOLEAN, save_logs \in BOOLEAN :
              ProcessDiscussion(save_output, save_logs)
       /\ UNCHANGED << call, cli >>
    \/ /\ ops < MaxOps /\ \E file \in InputFiles, save_output \in BOOLEAN, save_logs \in BOOLEAN :
              ProcessFromFile(file, save_output, save_logs)
       /\ UNCHANGED << call, cli >>
    \/ /\ \E spam_result \in SpamResponses \cup {Raised}, ok \in BOOLEAN :
              SpamExecute(spam_result, ok)
       /\ UNCHANGED << call, cli >>
    \/ StartTransformation /\ UNCHANGED << call, cli >>
    \/ /\ \E raises \in BOOLEAN, ok \in BOOLEAN : AnalysisTask(raises, ok)
       /\ UNCHANGED << call, cli >>
    \/ /\ \E raises \in BOOLEAN, ok \in BOOLEAN : ScriptwritingTask(raises, ok)
       /\ UNCHANGED << call, cli >>
    \/ /\ \E crew_result \in CrewResults \cup {Raised}, ok \in BOOLEAN :
              FormattingTask(crew_result, ok)
       /\ UNCHANGED << call, cli >>
    \/ StartScoring /\ UNCHANGED << call, cli >>
    \/ /\ \E score_result \in ScoreResponses \cup {Raised} : ScoreExecute(score_result)
       /\ UNCHANGED << call, cli >>
    \/ /\ \E okDialogue \in BOOLEAN, okScore \in BOOLEAN, okLog \in BOOLEAN :
              Persist(okDialogue, okScore, okLog)
       /\ UNCHANGED << call, cli >>
    \/ /\ \E okLog \in BOOLEAN : PipelineException(okLog)
       /\ UNCHANGED << call, cli >>

Spec == Init /\ [][Next]_vars

(***************************************************************************)
(* What a run has done.                                                    *)
(***************************************************************************)
\* process_discussion was entered and has returned.
Returned == pc = "idle" /\ run.entered

\* The stage was invoked in this run.
Called(stage) == \E i \in DOMAIN run.calls : run.calls[i] = stage

\* The run tried to write the file.
Attempted(file) == \E i \in DOMAIN run.writes : run.writes[i].file = file

\* The run wrote the file.
Wrote(file) ==
    \E i \in DOMAIN run.writes : run.writes[i].file = file /\ run.writes[i].ok

\* len(text.strip())
TrimmedLength(text) == Len(Strip(Chars(text)))

(***************************************************************************)
(* C1  When the spam-filter stage fails (it raises, or its response is     *)
(* empty or shorter than 10 trimmed characters), process_discussion stops  *)
(* with an error result and not with the "filtered" outcome.               *)
(***************************************************************************)
SpamStageFailed ==
    /\ Called("spam_filter")
    /\ \/ run.spam_result = Raised
       \/ TrimmedLength(Str(run.spam_result)) < 10

C1_SpamFailureIsAnError ==
    (Returned /\ SpamStageFailed) =>
        (result.error # None /\ result.status # "filtered")

(***************************************************************************)
(* C2  A valid spam-filter response that contains "STOP" in any letter     *)
(* case anywhere ends the run with status "filtered", without an           *)
(* exception, and with no stage but the spam filter invoked.               *)
(***************************************************************************)
HasStopAnyCase(text) ==
    LET cs == Chars(text)
    IN  \E i \in 1..(Len(cs) - 3) :
            /\ cs[i] \in {"s", "S"}
            /\ cs[i + 1] \in {"t", "T"}
            /\ cs[i + 2] \in {"o", "O"}
            /\ cs[i + 3] \in {"p", "P"}

SpamStageSaidStop ==
    /\ Called("spam_filter")
    /\ run.spam_result # Raised
    /\ TrimmedLength(Str(run.spam_result)) >= 10
    /\ HasStopAnyCase(Str(run.spam_result))

C2_StopEndsRunAsFiltered ==
    SpamStageSaidStop =>
        /\ pc = "idle"
        /\ result.status = "filtered"
        /\ result.error = None
        /\ raised = ""
        /\ run.calls = << "spam_filter" >>

C2_Witness ==
    /\ Returned
    /\ run.spam_result = "  do not stop it  "
    /\ result.status = "filtered"

(***************************************************************************)
(* C3  No failure of a step of a run, the construction of the agents and   *)
(* tasks included, leaves the pipeline as an exception.                    *)
(***************************************************************************)
C3_NoExceptionEscapes == (pc = "idle" /\ op # "none") => raised = ""

(***************************************************************************)
(* C4  With save_logs set, every run of process_discussion has flushed     *)
(* the log buffer to a log file when it returns, whatever the outcome.     *)
(***************************************************************************)
C4_LogFlushedOnEveryOutcome ==
    (Returned /\ run.save_logs) => Attempted("log")

(***************************************************************************)
(* C5  Without the credential the pipeline returns an error result, calls  *)
(* no model and writes no output or log file.                              *)
(***************************************************************************)
CredentialWasMissing ==
    \/ op = "__init__" /\ raised # ""
    \/ run.entered /\ ~run.env_ok

C5_MissingCredentialIsAnErrorResult ==
    (pc = "idle" /\ CredentialWasMissing) =>
        /\ result.error # None
        /\ run.calls = << >>
        /\ run.writes = << >>

(***************************************************************************)
(* C6  A failure of the scoring stage (it raises, its response has fewer   *)
(* than 10 trimmed characters, or its first line holds no digit) does not  *)
(* abort the run: the result is "success" with the dialogue and the score  *)
(* "0", and with save_output both output files are written as far as the   *)
(* file system lets them.                                                  *)
(***************************************************************************)
NoDigitInFirstLine(text) ==
    LET cs == Strip(Chars(text))
    IN  \A i \in 1..Len(cs) :
            (\A j \in 1..(i - 1) : cs[j] # "\n") => cs[i] \notin Digits

ScoringStageFailed ==
    /\ Called("scoring")
    /\ \/ run.score_result = Raised
       \/ TrimmedLength(Str(run.score_result)) < 10
       \/ NoDigitInFirstLine(Str(run.score_result))

C6_ScoringFailureIsNotFatal ==
    ScoringStageFailed =>
        /\ pc \in {"persist", "idle"}
        /\ run.score = "0"
        /\ pc = "idle" =>
            /\ result.status = "success"
            /\ result.error = None
            /\ result.dialogue = run.dialogue_result
            /\ Truthy(result.dialogue)
            /\ result.score = "0"
            /\ run.save_output =>
                /\ Attempted("dialogue_output.txt")
                /\ Attempted("dialogue_score.txt")
                /\ Wrote("dialogue_output.txt") =>
                       output_dir["dialogue_output.txt"] = result.dialogue
                /\ Wrote("dialogue_score.txt") =>
                       output_dir["dialogue_score.txt"] # Absent

C6_Witness ==
    /\ Returned
    /\ run.score_result = Raised
    /\ result.status = "success"
    /\ run.save_output
    /\ Wrote("dialogue_output.txt")
    /\ Wrote("dialogue_score.txt")

(***************************************************************************)
(* C7  When the transformation raises, returns nothing, or returns a text  *)
(* that is empty once cleaned, the run returns an error result, never      *)
(* invokes the scoring stage and writes no dialogue or score file.         *)
(***************************************************************************)
TransformationGaveNothing ==
    \/ run.crew_result = Raised
    \/ /\ Called("formatting")
       /\ \/ run.crew_result = None
          \/ TrimmedLength(clean_dialogue(Str(run.crew_result))) = 0

C7_EmptyTransformationIsAnError ==
    TransformationGaveNothing =>
        /\ pc = "idle"
        /\ result.error # None
        /\ result.status = None
        /\ ~Called("scoring")
        /\ ~Attempted("dialogue_output.txt")
        /\ ~Attempted("dialogue_score.txt")

C7_Witness ==
    /\ Returned
    /\ run.crew_result = "(sighs) [x]"
    /\ result.error # None
    /\ run.calls = << "spam_filter", "analysis", "scriptwriting", "formatting" >>

(***************************************************************************)
(* C8  process_discussion accepts its input exactly when the trimmed text  *)
(* has at least 100 characters and at least 3 non-blank lines; any other   *)
(* input gives an error result with no model stage invoked.                *)
(***************************************************************************)
\* The start of the line position i of cs lies on.
LineStart(cs, i) == Max({0} \cup {k \in 1..(i - 1) : cs[k] = "\n"})

\* The number of lines of cs that hold a character other than whitespace.
NonBlankLines(cs) == Cardinality({LineStart(cs, i) : i \in NonSpace(cs)})

MeetsContentRule(content) ==
    /\ content # None
    /\ Len(Strip(Chars(content))) >= 100
    /\ NonBlankLines(Strip(Chars(content))) >= 3

\* The inputs of the model that meet the rule.
AcceptableContents ==
    {d \in Discussions \cup {f.text : f \in InputFiles} : MeetsContentRule(d)}

C8_ContentGate ==
    (run.entered /\ run.env_ok) =>
        IF crew.discussion_content \in AcceptableContents
        THEN pc = "spam_execute" \/ Called("spam_filter")
        ELSE /\ pc = "idle"
             /\ result.error # None
             /\ run.calls = << >>

C8_Witness ==
    /\ Returned
    /\ run.env_ok
    /\ crew.discussion_content = DiscussionShort
    /\ result.error # None
    /\ run.calls = << >>

(***************************************************************************)
(* C9  A success result that says the files were saved means that both     *)
(* output files were written.                                              *)
(***************************************************************************)
C9_FilesSavedMeansWritten ==
    (Returned /\ result.status = "success" /\ result.stats.files_saved) =>
        (Wrote("dialogue_output.txt") /\ Wrote("dialogue_score.txt"))

(***************************************************************************)
(* C10  The log file a run writes holds every entry appended during the    *)
(* run, the last ones logged before process_discussion returns included.   *)
(***************************************************************************)
C10_LogFileHoldsWholeBuffer ==
    (Returned /\ Wrote("log")) =>
        \E t \in 0..MaxClock : logs_dir[t] = log_buffer


(***************************************************************************)
(* The command (main.py): the specification SpecMain.  One process parses  *)
(* its arguments, constructs a crew, makes one run and exits.              *)
(***************************************************************************)
\* The sample discussion of the demonstration.
SAMPLE_DISCUSSION ==
    "\n"
    \o "John: I've been thinking about the new climate policy propos"
    \o "als. They seem pretty comprehensive.\n"
    \o "\n"
    \o "Sarah: Really? I read through them yesterday and I'm not con"
    \o "vinced they go far enough. The carbon tax rates are still to"
    \o "o low compared to what scientists recommend.\n"
    \o "\n"
    \o "Mike: But Sarah, you have to consider the economic impact. I"
    \o "f we raise taxes too high too fast, we could hurt small busi"
    \o "nesses and working families.\n"
    \o "\n"
    \o "Sarah: Mike, that's exactly the kind of short-term thinking "
    \o "that got us into this mess. We need bold action now, not inc"
    \o "remental changes that won't make a difference.\n"
    \o "\n"
    \o "John: I see both sides here. Maybe there's a middle ground? "
    \o "What if we implemented the tax gradually over 5 years with s"
    \o "upport programs for affected businesses?\n"
    \o "\n"
    \o "Mike: That's more reasonable, John. I could support somethin"
    \o "g like that. Sarah, what do you think?\n"
    \o "\n"
    \o "Sarah: I suppose it's better than nothing, but I still think"
    \o " we're not moving fast enough. Climate change won't wait for"
    \o " our economic convenience.\n"
    \o "\n"
    \o "John: Fair point, Sarah. But political reality matters too. "
    \o "If we push too hard and lose the next election, we might get"
    \o " nothing at all.\n"
    \o "\n"
    \o "Mike: Exactly. Sometimes incremental progress is better than"
    \o " no progress.\n"
    \o "\n"
    \o "Sarah: I understand that, but I worry we're compromising awa"
    \o "y our children's future. Someone has to advocate for bold ac"
    \o "tion.\n"

\* The paths --file may name.
Paths == {"missing.txt", "discussion.txt"}

\* The file at a path.
FileAt(path) ==
    IF path = "discussion.txt"
    THEN [exists |-> TRUE, utf8 |-> TRUE, text |-> DiscussionMin]
    ELSE [exists |-> FALSE, utf8 |-> TRUE, text |-> ""]

\* len(sys.argv): the program name, --file and its path, each flag given.
Argc(file, no_save, no_logs, demo) ==
    1 + (IF file # None THEN 2 ELSE 0) + (IF no_save THEN 1 ELSE 0)
      + (IF no_logs THEN 1 ELSE 0) + (IF demo THEN 1 ELSE 0)

\* main() leaves with the exit code, having ended the way named.
Exit(c, ended, code) == [c EXCEPT !.pc = "exited", !.ended = ended, !.exit = code]

\* main() up to the try: the arguments are parsed, setup_environment loads
\* the credential from .env when it is not set and the file gives it, and
\* the input source is determined.
MainStart(file, no_save, no_logs, demo, loaded) ==
    /\ cli.pc = "none"
    /\ pc = "idle"
    /\ api_key' = (api_key \/ loaded)
    /\ LET args == [cli EXCEPT !.file = file, !.no_save = no_save,
                               !.no_logs = no_logs, !.demo = demo]
       IN  IF Truthy(file)
           THEN cli' = [args EXCEPT !.pc = "construct", !.source = "file: " \o file]
           ELSE IF demo \/ Argc(file, no_save, no_logs, demo) = 1
           THEN cli' = [args EXCEPT !.pc = "construct", !.source = "sample discussion"]
           ELSE cli' = Exit(args, "no input", 1)
    /\ UNCHANGED << clock, crew, log_buffer, output_dir, logs_dir, pc, ops, op,
                    run, result, raised, call >>

\* main(): NewsGroupCrew(..); what the constructor raises is caught by
\* except Exception.
MainConstruct ==
    /\ cli.pc = "construct"
    /\ Construct(IF Truthy(cli.file) THEN "dummy content" ELSE SAMPLE_DISCUSSION)
    /\ cli' = IF get_gemini_llm_raises THEN Exit(cli, "exception", 1)
              ELSE [cli EXCEPT !.pc = "process"]
    /\ UNCHANGED call

\* main(): crew.process_from_file(..) or crew.process_discussion(..), begun.
MainProcess ==
    /\ cli.pc = "process"
    /\ IF Truthy(cli.file)
       THEN ProcessFromFile(FileAt(cli.file), ~cli.no_save, ~cli.no_logs)
       ELSE ProcessDiscussion(~cli.no_save, ~cli.no_logs)
    /\ cli' = [cli EXCEPT !.pc = "display"]
    /\ UNCHANGED call

\* The exit code for a result with status filtered taken as a failure.
ExitCode_FilteredFails(res) ==
    IF res.error # None THEN 1
    ELSE IF res.status = "filtered" THEN 1
    ELSE 0

\* main(): the value returned for the result of the run.
ExitCode(res) ==
    IF res.error # None THEN 1
    ELSE IF res.status = "filtered" THEN 0
    ELSE 0

\* main(): the run has returned; the result is displayed and main returns.
MainDisplay ==
    /\ cli.pc = "display"
    /\ pc = "idle"
    /\ cli' = Exit(cli, "returned", ExitCode(result))
    /\ UNCHANGED << api_key, clock, crew, log_buffer, output_dir, logs_dir, pc,
                    ops, op, run, result, raised, call >>

\* KeyboardInterrupt inside the try of main(): the operation in progress, if
\* any, is abandoned without a result, and main returns 1.
MainInterrupt ==
    /\ cli.pc \in {"construct", "process", "display"}
    /\ cli' = Exit(cli, "interrupted", 1)
    /\ IF pc # "idle"
       THEN /\ pc' = "idle"
            /\ raised' = "KeyboardInterrupt"
       ELSE UNCHANGED << pc, raised >>
    /\ UNCHANGED << api_key, clock, crew, log_buffer, output_dir, logs_dir,
                    ops, op, run, result, call >>

NextMain ==
    \/ \E file \in Paths \cup {None}, no_save \in BOOLEAN, no_logs \in BOOLEAN,
          demo \in BOOLEAN, loaded \in BOOLEAN :
           MainStart(file, no_save, no_logs, demo, loaded)
    \/ MainConstruct
    \/ MainProcess
    \/ MainDisplay
    \/ MainInterrupt
    \/ /\ \E spam_result \in SpamResponses \cup {Raised}, ok \in BOOLEAN :
              SpamExecute(spam_result, ok)
       /\ UNCHANGED << call, cli >>
    \/ StartTransformation /\ UNCHANGED << call, cli >>
    \/ /\ \E raises \in BOOLEAN, ok \in BOOLEAN : AnalysisTask(raises, ok)
       /\ UNCHANGED << call, cli >>
    \/ /\ \E raises \in BOOLEAN, ok \in BOOLEAN : ScriptwritingTask(raises, ok)
       /\ UNCHANGED << call, cli >>
    \/ /\ \E crew_result \in CrewResults \cup {Raised}, ok \in BOOLEAN :
              FormattingTask(crew_result, ok)
       /\ UNCHANGED << call, cli >>
    \/ StartScoring /\ UNCHANGED << call, cli >>
    \/ /\ \E score_result \in ScoreResponses \cup {Raised} : ScoreExecute(score_result)
       /\ UNCHANGED << call, cli >>
    \/ /\ \E okDialogue \in BOOLEAN, okScore \in BOOLEAN, okLog \in BOOLEAN :
              Persist(okDialogue, okScore, okLog)
       /\ UNCHANGED << call, cli >>
    \/ /\ \E okLog \in BOOLEAN : PipelineException(okLog)
       /\ UNCHANGED << call, cli >>

SpecMain == Init /\ [][NextMain]_vars

(***************************************************************************)
(* Several runs in one process: the specification SpecRuns.  The actions   *)
(* are those of Spec; the inputs are the few that tell one run from the    *)
(* next (a discussion that passes the checks, a file that cannot be read,  *)
(* a spam verdict of each kind, one response of each later stage).         *)
(***************************************************************************)
RunDiscussions == {DiscussionMin}

RunFiles ==
    { [exists |-> FALSE, utf8 |-> TRUE, text |-> ""],
      [exists |-> TRUE, utf8 |-> FALSE, text |-> DiscussionMin] }

RunSpamResponses == {"looks fine", "STOP"}

RunCrewResults == {"A: hi (smiles)\n\n\n\nB:  yo "}

RunScoreResponses == {"8"}

NextRuns ==
    \/ SetEnv /\ UNCHANGED << call, cli >>
    \/ Tick /\ UNCHANGED << call, cli >>
    \/ /\ ops < MaxRunOps /\ \E content \in RunDiscussions : Construct(content)
       /\ UNCHANGED << call, cli >>
    \/ /\ ops < MaxRunOps /\ \E save_logs \in BOOLEAN : ProcessDiscussion(FALSE, save_logs)
       /\ UNCHANGED << call, cli >>
    \/ /\ ops < MaxRunOps /\ \E file \in RunFiles, save_logs \in BOOLEAN :
              ProcessFromFile(file, FALSE, save_logs)
       /\ UNCHANGED << call, cli >>
    \/ /\ \E spam_result \in RunSpamResponses, ok \in BOOLEAN :
              SpamExecute(spam_result, ok)
       /\ UNCHANGED << call, cli >>
    \/ StartTransformation /\ UNCHANGED << call, cli >>
    \/ /\ \E raises \in BOOLEAN, ok \in BOOLEAN : AnalysisTask(raises, ok)
       /\ UNCHANGED << call, cli >>
    \/ /\ \E raises \in BOOLEAN, ok \in BOOLEAN : ScriptwritingTask(raises, ok)
       /\ UNCHANGED << call, cli >>
    \/ /\ \E crew_result \in RunCrewResults, ok \in BOOLEAN :
              FormattingTask(crew_result, ok)
       /\ UNCHANGED << call, cli >>
    \/ StartScoring /\ UNCHANGED << call, cli >>
    \/ /\ \E score_result \in RunScoreResponses : ScoreExecute(score_result)
       /\ UNCHANGED << call, cli >>
    \/ /\ \E okLog \in BOOLEAN : Persist(TRUE, TRUE, okLog)
       /\ UNCHANGED << call, cli >>
    \/ /\ \E okLog \in BOOLEAN : PipelineException(okLog)
       /\ UNCHANGED << call, cli >>

SpecRuns == Init /\ [][NextRuns]_vars

\* A log file is on disk under the timestamp t.
LogFileExists(t) == logs_dir[t] # NoLog

\* C11: a log file, once written, is never replaced by a later save_log,
\* also when the later run saves within the same clock second.
C11_LogFileNeverOverwritten ==
    [][\A t \in 0..MaxClock : LogFileExists(t) => logs_dir'[t] = logs_dir[t]]_vars

\* The entries of one run, from its clear on: the first is the step logged
\* right after the clear, and every entry is of the operation of the first.
FromOneRun(log) ==
    /\ log[1].text = log_step("PIPELINE START")
    /\ \A i \in 1..Len(log) : log[i].op = log[1].op
    /\ \A i \in 2..Len(log) : log[i].text # log_step("PIPELINE START")

IsPrefix(s, t) == Len(s) <= Len(t) /\ SubSeq(t, 1, Len(s)) = s

\* C12: while a run is in progress the buffer is only appended to, and
\* every log file on disk holds the entries of one run only, all of them
\* appended after that run cleared the buffer: nothing of an earlier run,
\* of the constructor or of the file loading before the run is in it.
C12_LogFileHoldsOneRunOnly ==
    [][/\ (pc # "idle" => IsPrefix(log_buffer, log_buffer'))
       /\ \A t \in 0..MaxClock :
              LogFileExists(t)' => FromOneRun(logs_dir[t])']_vars

\* A second run of the same process has written its log file, the runs
\* before it having left entries behind.
C12_Witness ==
    /\ Returned
    /\ ops >= 3
    /\ Wrote("log")
    /\ LogFileExists(clock)
    /\ logs_dir[clock][1].op = ops

(***************************************************************************)
(* The static methods of tools.py called on their own: the specification   *)
(* SpecTools.  The argument is any text over a small alphabet, up to a     *)
(* bounded length; the one step of a behaviour is the call.                *)
(***************************************************************************)
\* The value of a call that has not been made yet.
Pending == "<pending>"

\* Every text of exactly n characters of the alphabet.
RECURSIVE TextsOfLen(_, _)
TextsOfLen(alphabet, n) ==
    IF n = 0 THEN {""}
    ELSE {t \o c : t \in TextsOfLen(alphabet, n - 1), c \in alphabet}

\* Every text of at most n characters of the alphabet.
Texts(alphabet, n) == UNION {TextsOfLen(alphabet, k) : k \in 0..n}

\* Characters of the responses given to extract_score.
ScoreAlphabet == {"0", "1", "9", "/", " ", "a", "\n"}

\* The responses of at most n characters, and no response.
ScoreTexts(n) == Texts(ScoreAlphabet, n) \cup {None}

\* Characters of the texts given to clean_dialogue: the three pairs of
\* delimiters, a letter and a space.
CleanAlphabet == {"(", ")", "[", "]", "{", "}", "a", " "}

\* The texts with delimiters of at most n characters, and no text.
CleanTexts(n) == Texts(CleanAlphabet, n) \cup {None}

\* Characters of the texts of several lines given to clean_dialogue.
ParagraphAlphabet == {"a", " ", "\n"}

\* The texts of several lines of at most n characters.
ParagraphTexts(n) == Texts(ParagraphAlphabet, n)

\* Characters of the filenames given to save_result: those that are
\* replaced, those that are stripped, and a letter.
NameAlphabet == InvalidChars \cup {".", " ", "a"}

\* The filenames of at most n characters.
Filenames(n) == Texts(NameAlphabet, n)

\* The calls of fn that are about to be made, one for each argument.
ToolCalls(fn, args) == {[fn |-> fn, arg |-> t, ret |-> Pending] : t \in args}

InitTools ==
    /\ InitProcess
    /\ ~api_key
    /\ cli = NoCli
    /\ call \in ToolCalls("extract_score", ScoreTexts(MaxScoreLen))
                \cup ToolCalls("clean_dialogue",
                                CleanTexts(MaxCleanLen)
                                    \cup ParagraphTexts(MaxParagraphLen))
                \cup ToolCalls("save_result", Filenames(MaxNameLen))

\* TextProcessor.extract_score(call.arg)
CallExtractScore ==
    /\ call.fn = "extract_score"
    /\ call.ret = Pending
    /\ call' = [call EXCEPT !.ret = extract_score(call.arg)]
    /\ UNCHANGED << api_key, clock, crew, log_buffer, output_dir, logs_dir, pc,
                    ops, op, run, result, raised, cli >>

\* TextProcessor.clean_dialogue(call.arg)
CallCleanDialogue ==
    /\ call.fn = "clean_dialogue"
    /\ call.ret = Pending
    /\ call' = [call EXCEPT !.ret = clean_dialogue(call.arg)]
    /\ UNCHANGED << api_key, clock, crew, log_buffer, output_dir, logs_dir, pc,
                    ops, op, run, result, raised, cli >>

\* str() of what a method returning bool returned.
PyBool(b) == IF b THEN "True" ELSE "False"

\* FileManager.save_result(content, call.arg)
CallSaveResult(content, ok) ==
    /\ call.fn = "save_result"
    /\ call.ret = Pending
    /\ output_dir' = save_result(output_dir, content, call.arg, ok)
    /\ call' = [call EXCEPT !.ret = PyBool(save_result_ok(content, ok))]
    /\ UNCHANGED << api_key, clock, crew, log_buffer, logs_dir, pc,
                    ops, op, run, result, raised, cli >>

NextTools ==
    \/ CallExtractScore
    \/ CallCleanDialogue
    \/ \E content \in {"", "text"}, ok \in BOOLEAN : CallSaveResult(content, ok)

SpecTools == InitTools /\ [][NextTools]_vars

\* The call of fn has returned.
Returned_(fn) == call.fn = fn /\ call.ret # Pending

(***************************************************************************)
(* C13: the reference the score is to equal, written from the claim.       *)
(***************************************************************************)
\* Positions of the digits of a line.
RefDigitsAt(cs) == {i \in 1..Len(cs) : cs[i] \in Digits}

\* Last position of the run of digits that begins at i.
RefRunEnd(cs, i) == Max({j \in i..Len(cs) : \A k \in i..j : cs[k] \in Digits})

\* First position of the run of digits that ends at j.
RefRunStart(cs, j) == Min({i \in 1..j : \A k \in i..j : cs[k] \in Digits})

\* Positions of the slashes of the fractions <digits>/<digits> of a line.
RefFractionsAt(cs) ==
    {p \in 2..(Len(cs) - 1) :
        cs[p] = "/" /\ cs[p - 1] \in Digits /\ cs[p + 1] \in Digits}

RECURSIVE RefPow10(_)
RefPow10(k) == IF k = 0 THEN 1 ELSE 10 * RefPow10(k - 1)

\* The number the digits at i..j write.
RECURSIVE RefValue(_, _, _)
RefValue(cs, i, j) ==
    IF i > j THEN 0
    ELSE DigitValue(cs[i]) * RefPow10(j - i) + RefValue(cs, i + 1, j)

\* The value clamped into [1,10], as text.
RefClamp(v) ==
    IF v < 1 THEN "1"
    ELSE IF v > 10 THEN "10"
    ELSE << "1", "2", "3", "4", "5", "6", "7", "8", "9", "10" >>[v]

\* The score of one line: a bare integer, else the numerator of the first
\* fraction, else the first run of digits, else the sentinel.
RefScoreOfLine(line) ==
    LET t == Strip(line)
    IN  IF Len(t) > 0 /\ RefDigitsAt(t) = 1..Len(t)
        THEN RefClamp(RefValue(t, 1, Len(t)))
        ELSE IF RefFractionsAt(t) # {}
        THEN LET p == Min(RefFractionsAt(t))
             IN  RefClamp(RefValue(t, RefRunStart(t, p - 1), p - 1))
        ELSE IF RefDigitsAt(t) # {}
        THEN LET i == Min(RefDigitsAt(t))
             IN  RefClamp(RefValue(t, i, RefRunEnd(t, i)))
        ELSE "0"

\* The characters before the first newline.
RefFirstLine(cs) ==
    LET nl == {i \in 1..Len(cs) : cs[i] = "\n"}
    IN  IF nl = {} THEN cs ELSE SubSeq(cs, 1, Min(nl) - 1)

\* The reference on the first line of the text as given.
RefScoreOfFirstLine(text) ==
    IF text = None \/ text = "" THEN "0"
    ELSE RefScoreOfLine(RefFirstLine(Chars(text)))

\* The reference on the first line of the text trimmed as a whole.
RefScoreOfTrimmedText(text) ==
    IF text = None \/ text = "" THEN "0"
    ELSE RefScoreOfLine(RefFirstLine(Strip(Chars(text))))

\* C13 as stated: extract_score of any text equals the reference taken on
\* the first line of the text; an empty first line gives the sentinel "0".
C13_ScoreEqualsReferenceOnFirstLine ==
    Returned_("extract_score") => call.ret = RefScoreOfFirstLine(call.arg)

\* C13 amended: extract_score of any text equals the reference taken on the
\* first line of the text once the whole text is trimmed, so that blank
\* lines at the head of the text are passed over; a text of whitespace only
\* gives the sentinel "0".
C13_ScoreEqualsReferenceOnTrimmedText ==
    Returned_("extract_score") => call.ret = RefScoreOfTrimmedText(call.arg)

\* A fraction after an earlier run of digits of another value:
\* the numerator is the score.
C13_Witness ==
    /\ Returned_("extract_score")
    /\ call.arg = "9 1/1"
    /\ call.ret = "1"

\* C14: clean_dialogue is idempotent: cleaning what clean_dialogue returned,
\* for any text, unbalanced, nested and interleaved delimiters included,
\* gives it back unchanged.
C14_CleanIsIdempotent ==
    Returned_("clean_dialogue") => clean_dialogue(call.ret) = call.ret

\* Interleaved delimiters: the parentheses go with the bracket they hold,
\* the closing bracket stays, and stays when cleaned again.
C14_Witness ==
    /\ Returned_("clean_dialogue")
    /\ call.arg = "([)]"
    /\ call.ret = "]"

\* The text has two or more blank lines in a row between two pieces of
\* text: a run of whitespace with three newlines or more, text on both sides.
HasParagraphBreak(text) ==
    LET cs == Chars(text)
    IN  \E i \in 2..(Len(cs) - 1) :
            /\ cs[i - 1] \notin Whitespace
            /\ cs[i] \in Whitespace
            /\ SpaceRunEnd(cs, i) < Len(cs)
            /\ Cardinality(NewlinesIn(cs, i, SpaceRunEnd(cs, i))) >= 3

\* The text has a blank line between two pieces of text, and nowhere more
\* than one.
HasOneBlankLine(text) ==
    LET cs == Chars(text)
    IN  /\ \E i \in 2..(Len(cs) - 2) :
               /\ cs[i - 1] # "\n"
               /\ cs[i] = "\n"
               /\ cs[i + 1] = "\n"
               /\ cs[i + 2] # "\n"
        /\ \A i \in 1..(Len(cs) - 2) :
               ~(cs[i] = "\n" /\ cs[i + 1] = "\n" /\ cs[i + 2] = "\n")

\* C15: clean_dialogue keeps paragraph breaks: a text with two or more blank
\* lines in a row between two pieces of text comes out with exactly one
\* blank line between them.
C15_ParagraphBreakKept ==
    (Returned_("clean_dialogue") /\ Truthy(call.arg) /\ HasParagraphBreak(call.arg))
        => HasOneBlankLine(call.ret)

\* The name has none of the characters < > : " / \ | ? *, neither starts nor
\* ends with a dot or a space, and is not empty.
SafeName(name) ==
    LET cs == Chars(name)
    IN  /\ Len(cs) > 0
        /\ \A i \in 1..Len(cs) : cs[i] \notin InvalidChars
        /\ cs[1] \notin {".", " "}
        /\ cs[Len(cs)] \notin {".", " "}

\* The filename sanitizes to nothing: dots and spaces only.
SanitizesToNothing(filename) ==
    \A i \in 1..Len(filename) : SubSeq(filename, i, i) \in {".", " "}

\* The files of output/ that were not there when the process began.
NewFiles == DOMAIN output_dir \ {"dialogue_output.txt", "dialogue_score.txt"}

\* C16: whatever filename save_result is given, the file it writes is in
\* output/ under a safe name: none of the invalid characters, no dot or
\* space at either end, not empty, "output" when the filename sanitizes to
\* nothing; and a call that saved has written exactly that one file.
C16_SavedUnderSafeName ==
    Returned_("save_result") =>
        /\ \A name \in DOMAIN output_dir : SafeName(name)
        /\ call.ret = "True" => Cardinality(NewFiles) = 1
        /\ call.ret = "False" => NewFiles = {}
        /\ (call.ret = "True" /\ SanitizesToNothing(call.arg)) => NewFiles = {"output"}

\* A filename that climbs out of the directory is saved inside it.
C16_Witness ==
    /\ Returned_("save_result")
    /\ call.arg = "../"
    /\ call.ret = "True"
    /\ NewFiles = {"_"}

\* main() has returned.
Exited == cli.pc = "exited"

\* C17: whenever no input file path is given, whatever the flags --no-save
\* and --no-logs, the command takes the sample discussion as its input and
\* runs it through process_discussion (unless the constructor raises or the
\* user interrupts).
C17_NoFileMeansSample ==
    (Exited /\ cli.file = None) =>
        /\ cli.source = "sample discussion"
        /\ cli.ended # "no input"
        /\ cli.ended = "returned" =>
               /\ op = "process_discussion"
               /\ crew.discussion_content = SAMPLE_DISCUSSION

\* C18: the exit code is 0 exactly when main came to the end of a run whose
\* result has status success or filtered, and 1 otherwise: an error result,
\* an exception, an interruption, no input.
C18_ExitCodeTellsOutcome ==
    Exited =>
        /\ cli.exit \in {0, 1}
        /\ cli.exit = 0 <=>
               (cli.ended = "returned" /\ result.status \in {"success", "filtered"})

\* A run the spam filter stopped: the command exits with 0.
C18_Witness ==
    /\ Exited
    /\ cli.ended = "returned"
    /\ result.status = "filtered"
    /\ cli.exit = 0

\* The model stages in the order process_discussion invokes them.
StageOrder == << "spam_filter", "analysis", "scriptwriting", "formatting", "scoring" >>

\* The output files the run tried to write, in order.
OutputWrites ==
    LET IsOutput(w) == w.file # "log"
        ws == SelectSeq(run.writes, IsOutput)
    IN  [i \in 1..Len(ws) |-> ws[i].file]

\* File persistence was invoked in this run.
PersistenceInvoked == OutputWrites # << >>

\* The spam filter let the content through.
SpamStageAccepted ==
    Called("spam_filter") /\ ~SpamStageFailed /\ ~SpamStageSaidStop

\* The transformation gave a dialogue: the crew's text, cleaned, not empty.
TransformationAccepted ==
    /\ Called("formatting")
    /\ ~TransformationGaveNothing
    /\ run.dialogue_result = clean_dialogue(Str(run.crew_result))

\* The order of the stages up to scoring: each model stage at most once and
\* in order, none before the two checks passed, none of the transformation
\* before the spam filter let the content through, no scoring before the
\* transformation gave its cleaned dialogue, the two output files at most
\* once each, in order, and only after the scoring stage was invoked.
StagesInOrder ==
    /\ IsPrefix(run.calls, StageOrder)
    /\ IsPrefix(OutputWrites, << "dialogue_output.txt", "dialogue_score.txt" >>)
    /\ run.calls # << >> =>
           (run.env_ok /\ crew.discussion_content \in AcceptableContents)
    /\ (run.entered /\ ~run.env_ok) => (pc = "idle" /\ result.error # None)
    /\ Called("analysis") => SpamStageAccepted
    /\ Called("scoring") => TransformationAccepted
    /\ PersistenceInvoked => (Called("scoring") /\ TransformationAccepted)

\* C19 as stated: the stages of a run execute at most once each and in
\* order, and none is invoked unless every earlier stage completed with an
\* accepting result; file persistence, then, never follows a scoring stage
\* that failed.
C19_NoStageAfterAFailedOne ==
    /\ StagesInOrder
    /\ PersistenceInvoked => ~ScoringStageFailed

\* C19 amended: the stages of a run execute at most once each and in order,
\* and none is invoked unless every earlier stage completed with an
\* accepting result, except that file persistence follows the scoring stage
\* whatever its outcome: a scoring stage that failed has given the score
\* "0" and the run goes on.
C19_StagesInOrderScoringNeverBlocks ==
    /\ StagesInOrder
    /\ PersistenceInvoked => run.score \in {"0", "1", "2", "3", "4", "5", "6", "7", "8", "9", "10"}
    /\ (PersistenceInvoked /\ ScoringStageFailed) => run.score = "0"

\* Every stage was invoked, in order, the scoring stage failed, and the
\* output files were written all the same.
C19_Witness ==
    /\ Returned
    /\ run.calls = StageOrder
    /\ ScoringStageFailed
    /\ OutputWrites = << "dialogue_output.txt", "dialogue_score.txt" >>

\* A run has returned its dict (process_from_file without a run included).
RunReturned == pc = "idle" /\ op \in {"process_discussion", "process_from_file"}

\* The texts of the integers of [1,10].
ScoresInRange == {"1", "2", "3", "4", "5", "6", "7", "8", "9", "10"}

\* C20: a result with status "success" has a dialogue that is not empty and
\* is clean_dialogue of what the transformation returned, and a score that
\* is "0" or an integer of [1,10]; every other result, error or filtered,
\* has neither a dialogue nor a score.
C20_SuccessCarriesDialogueAndScore ==
    RunReturned =>
        /\ result.status = "success" =>
               /\ result.error = None
               /\ run.crew_result \notin {None, Raised}
               /\ result.dialogue = clean_dialogue(run.crew_result)
               /\ Len(result.dialogue) > 0
               /\ result.score \in ScoresInRange \cup {"0"}
        /\ result.status # "success" =>
               /\ result.error # None \/ result.status = "filtered"
               /\ result.dialogue = None
               /\ result.score = None

\* A success whose dialogue is the cleaned text and whose score was clamped
\* from 12 to 10.
C20_Witness ==
    /\ RunReturned
    /\ result.status = "success"
    /\ run.crew_result = "A: hi (smiles)\n\n\n\nB:  yo "
    /\ result.dialogue = "A: hi B: yo"
    /\ run.score_result = "Score: 12/10"
    /\ result.score = "10"

\* The log files the run tried to write.
LogWrites ==
    LET IsLog(w) == w.file = "log"
    IN  SelectSeq(run.writes, IsLog)

\* C21: in every step, output/ changes and the dialogue and score files are
\* attempted only in a run with save_output set that thereby returns
\* success; logs/ changes and a log file is attempted only with save_logs
\* set, and at most once in a run; a run that returned filtered or an error
\* attempted no dialogue or score file; with both flags cleared no step of
\* the run changes output/ or logs/ or attempts a write.
C21_WritesOnlyAsFlagsAllow ==
    [][/\ (output_dir' # output_dir \/ PersistenceInvoked') =>
              /\ run'.save_output
              /\ pc' = "idle"
              /\ result'.status = "success"
       /\ (logs_dir' # logs_dir \/ LogWrites' # << >>) => run'.save_logs
       /\ Len(LogWrites') <= 1
       /\ (RunReturned' /\ result'.status # "success") => ~PersistenceInvoked'
       /\ (run'.entered /\ ~run'.save_output /\ ~run'.save_logs) =>
              /\ output_dir' = output_dir
              /\ logs_dir' = logs_dir
              /\ run'.writes = << >>]_vars

\* A run with both flags set that the spam filter stopped: the log file was
\* written, no dialogue or score file was.
C21_Witness ==
    /\ Returned
    /\ result.status = "filtered"
    /\ run.save_output
    /\ run.save_logs
    /\ Wrote("log")
    /\ ~PersistenceInvoked
    /\ \A f \in DOMAIN output_dir : output_dir[f] = Absent

\* The scoring stage returned a response of fewer than 10 trimmed characters.
ScoreResponseTooShort ==
    /\ Called("scoring")
    /\ run.score_result # Raised
    /\ TrimmedLength(Str(run.score_result)) < 10

\* The scoring stage returned a response of at least 10 trimmed characters.
ScoreResponseLongEnough ==
    /\ Called("scoring")
    /\ run.score_result # Raised
    /\ TrimmedLength(Str(run.score_result)) >= 10

\* score_dialogue logged the score it extracted.
ExtractionLogged ==
    \E i \in DOMAIN log_buffer :
        log_buffer[i].op = ops /\ log_buffer[i].text = log_result("Scoring Result")

\* C22: a scoring response of fewer than 10 trimmed characters is never
\* given to extract_score: the score of the run is "0", whatever the
\* response holds, and no extracted score is logged; the score is what
\* extract_score gives exactly for the responses of at least 10 trimmed
\* characters.
C22_ShortResponseIsNeverParsed ==
    /\ ScoreResponseTooShort =>
           /\ run.score = "0"
           /\ ~ExtractionLogged
           /\ RunReturned => result.score = "0"
    /\ ScoreResponseLongEnough =>
           /\ run.score = extract_score(Str(run.score_result))
           /\ RunReturned => ExtractionLogged

\* The response is a bare "8", which extract_score reads as 8; the run is a
\* success with the score "0".
C22_Witness ==
    /\ Returned
    /\ run.score_result = "8"
    /\ extract_score(Str(run.score_result)) = "8"
    /\ result.status = "success"
    /\ result.score = "0"

====
